---- MODULE Spec2Model ----
(***************************************************************************)
(* A model of src/message.py: the CAN frame type Message (construction,    *)
(* the validator _check, the value comparison equals) and the LIN frame    *)
(* type LinMessage (construction with dlc quantisation and zero padding,   *)
(* __eq__/__ne__).                                                         *)
(*                                                                         *)
(* Python values are modelled as follows.                                  *)
(*  - A float is a record [k, v]: k = "fin" with v the value in            *)
(*    microseconds, k = "inf" with v the sign, or k = "nan".  None, where  *)
(*    a parameter is Optional, is [k |-> "none", v |-> 0]; an int in an    *)
(*    Optional parameter is [k |-> "int", v |-> n].                        *)
(*  - Mutable sequences (bytearray, list) live in `heap`, a sequence of    *)
(*    cells [kind, val]; a reference is an index into heap.  bytes, str    *)
(*    and int arguments are immutable values.                              *)
(*  - An exception is the `err` field of a call's outcome ("TypeError",    *)
(*    "ValueError", or "none") with the message text in `text`.            *)
(***************************************************************************)
EXTENDS Integers, Sequences, FiniteSets, TLC

VARIABLES
    pc,       \* number of constructor calls made so far
    args,     \* the argument records of the Message(...) calls to make
    heap,     \* the mutable sequence objects: <<[kind, val], ...>>
    msgs,     \* outcome of each Message(...) call: [err, text, m]
    linArgs,  \* the argument records of the LinMessage(...) calls to make
    lins,     \* outcome of each LinMessage(...) call: [err, text, m]
    last      \* the last method call or caller step, with what it returned

vars == <<pc, args, heap, msgs, linArgs, lins, last>>

-----------------------------------------------------------------------------
(* Bounds of the model.                                                    *)

\* how far past each length limit (8, 64) the drawn lengths and dlc go
Over == 1
\* largest finite timestamp drawn for the comparison, in microseconds
MaxTs == 12
\* byte values the caller writes when it mutates a sequence: 0 .. MaxByte
MaxByte == 1
\* longest sequence the caller grows a mutable payload to
MaxLen == 2
\* in how many arguments the second frame of a comparison differs from the first
MaxDiff == 2

-----------------------------------------------------------------------------
(* Program constants.                                                      *)

StdIdLimit == 2048
ExtIdLimit == 536870912
ClassicMaxDlc == 8
FdMaxDlc == 64
ByteRange == 256

-----------------------------------------------------------------------------
(* Python values.                                                          *)

NoneV == [k |-> "none", v |-> 0]
IntV(n) == [k |-> "int", v |-> n]
StrV(n) == [k |-> "str", v |-> n]
Fin(n) == [k |-> "fin", v |-> n]
PosInf == [k |-> "inf", v |-> 1]
NegInf == [k |-> "inf", v |-> -1]
NaN == [k |-> "nan", v |-> 0]

Abs(n) == IF n < 0 THEN -n ELSE n

\* math.isinf, math.isnan
isinf(x) == x.k = "inf"
isnan(x) == x.k = "nan"

\* float a < float b (false whenever either is NaN)
FloatLt(a, b) ==
    IF isnan(a) \/ isnan(b) THEN FALSE
    ELSE IF isinf(a) THEN a.v < 0 /\ ~(isinf(b) /\ b.v < 0)
    ELSE IF isinf(b) THEN b.v > 0
    ELSE a.v < b.v

\* float a <= float b (false whenever either is NaN)
FloatLe(a, b) ==
    IF isnan(a) \/ isnan(b) THEN FALSE
    ELSE IF isinf(a) THEN (a.v < 0) \/ (isinf(b) /\ b.v > 0)
    ELSE IF isinf(b) THEN b.v > 0
    ELSE a.v <= b.v

\* float a - float b (inf - inf of the same sign is NaN)
FloatSub(a, b) ==
    IF isnan(a) \/ isnan(b) THEN NaN
    ELSE IF isinf(a) THEN (IF isinf(b) /\ b.v = a.v THEN NaN ELSE a)
    ELSE IF isinf(b) THEN [k |-> "inf", v |-> -b.v]
    ELSE Fin(a.v - b.v)

\* abs(float)
FloatAbs(a) ==
    IF isnan(a) THEN NaN
    ELSE IF isinf(a) THEN PosInf
    ELSE Fin(Abs(a.v))

\* n copies of b
Fill(n, b) == [i \in 1..n |-> b]

\* [0] * n: the empty list when n <= 0
ZeroList(n) == IF n > 0 THEN Fill(n, 0) ELSE <<>>

\* data arguments: immutable values and references to heap objects
DNone == [kind |-> "None", val |-> <<>>, ref |-> 0]
DBytes(s) == [kind |-> "bytes", val |-> s, ref |-> 0]
DList(s) == [kind |-> "list", val |-> s, ref |-> 0]
DStr == [kind |-> "str", val |-> <<>>, ref |-> 0]
DInt(n) == [kind |-> "int", val |-> <<n>>, ref |-> 0]
DRef(r) == [kind |-> "ref", val |-> <<>>, ref |-> r]

\* isinstance(data, bytearray)
IsByteArray(data, h) == data.kind = "ref" /\ h[data.ref].kind = "bytearray"

\* the items bytearray(data) iterates over
Items(data, h) == IF data.kind = "ref" THEN h[data.ref].val ELSE data.val

\* bytearray(data): the new buffer's content, or the exception raised
bytearray(data, h) ==
    CASE data.kind \in {"str", "None"} ->
           [err |-> "TypeError", val |-> <<>>]
      [] data.kind = "int" ->
           IF data.val[1] < 0
           THEN [err |-> "ValueError", val |-> <<>>]
           ELSE [err |-> "none", val |-> ZeroList(data.val[1])]
      [] OTHER ->
           LET s == Items(data, h)
           IN IF \A i \in 1..Len(s) : s[i] >= 0 /\ s[i] < ByteRange
              THEN [err |-> "none", val |-> s]
              ELSE [err |-> "ValueError", val |-> <<>>]

\* a new bytearray object on the heap
Alloc(h, s) == Append(h, [kind |-> "bytearray", val |-> s])

-----------------------------------------------------------------------------
(* class Message                                                           *)

\* StoreData with the bytearray case tested before the remote-frame case
StoreData_ByteArrayFirst(a, h) ==
    IF IsByteArray(a.data, h)
    THEN [err |-> "none", ref |-> a.data.ref, heap |-> h]
    ELSE IF a.data.kind = "None" \/ a.is_remote_frame
    THEN [err |-> "none", ref |-> Len(h) + 1, heap |-> Alloc(h, <<>>)]
    ELSE LET b == bytearray(a.data, h)
         IN IF b.err = "none"
            THEN [err |-> "none", ref |-> Len(h) + 1, heap |-> Alloc(h, b.val)]
            ELSE [err |-> b.err, ref |-> 0, heap |-> h]

\* Message.__init__, the payload: which buffer self.data is bound to
StoreData(a, h) ==
    IF a.data.kind = "None" \/ a.is_remote_frame
    THEN [err |-> "none", ref |-> Len(h) + 1, heap |-> Alloc(h, <<>>)]
    ELSE IF IsByteArray(a.data, h)
    THEN [err |-> "none", ref |-> a.data.ref, heap |-> h]
    ELSE LET b == bytearray(a.data, h)
         IN IF b.err = "none"
            THEN [err |-> "none", ref |-> Len(h) + 1, heap |-> Alloc(h, b.val)]
            ELSE [err |-> b.err, ref |-> 0, heap |-> h]

\* Message._check, the timestamp
TimestampCheck(m) ==
    IF FloatLt(m.timestamp, Fin(0)) THEN "the timestamp may not be negative"
    ELSE IF isinf(m.timestamp) THEN "the timestamp may not be infinite"
    ELSE IF isnan(m.timestamp) THEN "the timestamp may not be NaN"
    ELSE ""

\* Message._check, what a remote frame excludes
RemoteCheck(m) ==
    IF m.is_remote_frame
    THEN IF m.is_error_frame
         THEN "a message cannot be a remote and an error frame at the sane time"
         ELSE IF m.is_fd THEN "CAN FD does not support remote frames"
         ELSE ""
    ELSE ""

\* IdCheck with the limits themselves accepted (> for >=)
IdCheck_Inclusive(m) ==
    IF m.id < 0 THEN "arbitration IDs may not be negative"
    ELSE IF m.is_extended_id
    THEN (IF m.id > ExtIdLimit
          THEN "Extended arbitration IDs must be less than 2^29" ELSE "")
    ELSE IF m.id > StdIdLimit
    THEN "Normal arbitration IDs must be less than 2^11"
    ELSE ""

\* Message._check, the arbitration id
IdCheck(m) ==
    IF m.id < 0 THEN "arbitration IDs may not be negative"
    ELSE IF m.is_extended_id
    THEN (IF m.id >= ExtIdLimit
          THEN "Extended arbitration IDs must be less than 2^29" ELSE "")
    ELSE IF m.id >= StdIdLimit
    THEN "Normal arbitration IDs must be less than 2^11"
    ELSE ""

\* Message._check, the dlc
DlcCheck(m) ==
    IF m.dlc < 0 THEN "DLC may not be negative"
    ELSE IF m.is_fd
    THEN (IF m.dlc > FdMaxDlc
          THEN "DLC should be <= 64 for CAN FD frames" ELSE "")
    ELSE IF m.dlc > ClassicMaxDlc
    THEN "DLC should be <= 8 for normal CAN frames"
    ELSE ""

\* PayloadCheck without the comparison of dlc and len(data)
PayloadCheck_NoLength(m, h) ==
    IF m.is_remote_frame /\ Len(h[m.data].val) > 0
    THEN "remote frames may not carry any data"
    ELSE ""

\* Message._check, the payload against the dlc
PayloadCheck(m, h) ==
    IF m.is_remote_frame
    THEN (IF Len(h[m.data].val) > 0
          THEN "remote frames may not carry any data" ELSE "")
    ELSE IF m.dlc # Len(h[m.data].val)
    THEN "the DLC and the length of the data must match up for non remote frames"
    ELSE ""

\* Message._check, the flags of CAN FD
FdFlagsCheck(m) ==
    IF ~m.is_fd
    THEN IF m.bitrate_switch
         THEN "bitrate switch is only allowed for CAN FD frames"
         ELSE IF m.error_state_indicator
         THEN "error state indicator is only allowed for CAN FD frames"
         ELSE ""
    ELSE ""

\* the first exception a sequence of checks raises ("" when none does)
FirstRaised(checks) ==
    IF \A i \in 1..Len(checks) : checks[i] = ""
    THEN ""
    ELSE checks[CHOOSE i \in 1..Len(checks) :
                  checks[i] # "" /\ \A j \in 1..(i - 1) : checks[j] = ""]

\* Message._check with the dlc checked before the arbitration id
Message_check_DlcFirst(m, h) ==
    FirstRaised(<<TimestampCheck(m), RemoteCheck(m), DlcCheck(m), IdCheck(m),
                  PayloadCheck(m, h), FdFlagsCheck(m)>>)

\* Message._check: the text of the ValueError raised, "" when none is
Message_check(m, h) ==
    FirstRaised(<<TimestampCheck(m), RemoteCheck(m), IdCheck(m), DlcCheck(m),
                  PayloadCheck(m, h), FdFlagsCheck(m)>>)

\* Message.__init__: the fields set, the heap after it, the exception raised
Message_init(a, h) ==
    LET st == StoreData(a, h)
        m == [timestamp |-> a.timestamp,
              id |-> a.id,
              is_extended_id |-> a.is_extended_id,
              is_remote_frame |-> a.is_remote_frame,
              is_error_frame |-> a.is_error_frame,
              channel |-> a.channel,
              is_fd |-> a.is_fd,
              is_rx |-> a.is_rx,
              bitrate_switch |-> a.bitrate_switch,
              error_state_indicator |-> a.error_state_indicator,
              data |-> st.ref,
              dlc |-> IF st.err # "none" THEN 0
                      ELSE IF a.dlc = NoneV THEN Len(st.heap[st.ref].val)
                      ELSE a.dlc.v]
        text == IF st.err = "none" /\ a.check THEN Message_check(m, st.heap)
                ELSE ""
    IN [err |-> IF st.err # "none" THEN st.err
                ELSE IF text # "" THEN "ValueError" ELSE "none",
        text |-> IF st.err = "TypeError" THEN "Couldn't create message"
                 ELSE IF st.err = "ValueError" THEN "byte must be in range(0, 256)"
                 ELSE text,
        m |-> m,
        heap |-> st.heap]

\* TimestampMatch with a strict comparison (< for <=)
TimestampMatch_Strict(a, b, timestamp_delta) ==
    \/ timestamp_delta = NoneV
    \/ FloatLt(FloatAbs(FloatSub(a.timestamp, b.timestamp)), timestamp_delta)

\* Message.equals, the timestamps: within timestamp_delta, or not compared
TimestampMatch(a, b, timestamp_delta) ==
    \/ timestamp_delta = NoneV
    \/ FloatLe(FloatAbs(FloatSub(a.timestamp, b.timestamp)), timestamp_delta)

\* Message.equals, the direction
DirectionMatch(a, b, check_direction) ==
    a.is_rx = b.is_rx \/ ~check_direction

\* ChannelMatch with check_channel ignored
ChannelMatch_Always(a, b, check_channel) ==
    a.channel = b.channel

\* Message.equals, the channel
ChannelMatch(a, b, check_channel) ==
    a.channel = b.channel \/ ~check_channel

\* Message.equals of the objects ms[i] and ms[j]; `self is other` is i = j
Message_equals(ms, h, i, j, timestamp_delta, check_channel, check_direction) ==
    LET a == ms[i].m
        b == ms[j].m
    IN \/ i = j
       \/ /\ TimestampMatch(a, b, timestamp_delta)
          /\ DirectionMatch(a, b, check_direction)
          /\ a.id = b.id
          /\ a.is_extended_id = b.is_extended_id
          /\ a.dlc = b.dlc
          /\ h[a.data].val = h[b.data].val
          /\ a.is_remote_frame = b.is_remote_frame
          /\ a.is_error_frame = b.is_error_frame
          /\ ChannelMatch(a, b, check_channel)
          /\ a.is_fd = b.is_fd
          /\ a.bitrate_switch = b.bitrate_switch
          /\ a.error_state_indicator = b.error_state_indicator

-----------------------------------------------------------------------------
(* class LinMessage                                                        *)

slots == <<"id", "data", "dlc", "flags", "crc", "info", "timestamp">>

\* _eq_slots taken as all of __slots__
eq_slots_All == slots

\* LinMessage._eq_slots = __slots__[:-1]
eq_slots == SubSeq(slots, 1, Len(slots) - 1)

\* the dlc ladder with the steps cut one short (< for <=)
LadderDlc_Strict(n) ==
    IF n <= 8 THEN n
    ELSE IF n < 12 THEN 12
    ELSE IF n < 16 THEN 16
    ELSE IF n < 20 THEN 20
    ELSE IF n < 24 THEN 24
    ELSE IF n < 32 THEN 32
    ELSE IF n < 48 THEN 48
    ELSE 64

\* LinMessage.__init__, the dlc computed from len(data)
LadderDlc(n) ==
    IF n <= 8 THEN n
    ELSE IF n <= 12 THEN 12
    ELSE IF n <= 16 THEN 16
    ELSE IF n <= 20 THEN 20
    ELSE IF n <= 24 THEN 24
    ELSE IF n <= 32 THEN 32
    ELSE IF n <= 48 THEN 48
    ELSE 64

\* data.extend([0] * (dlc - len(data)))
ExtendZeros(s, dlc) == s \o ZeroList(dlc - Len(s))

\* the padding under an explicit dlc, applied only below 8 (< for <=)
PadExplicit_Below(s, dlc) ==
    IF dlc < 8 THEN ExtendZeros(s, dlc) ELSE s

\* LinMessage.__init__, the padding under an explicit dlc
PadExplicit(s, dlc) ==
    IF dlc <= 8 THEN ExtendZeros(s, dlc) ELSE s

\* LinMessage.__init__, the padding under a computed dlc
PadComputed(s, dlc) ==
    IF dlc > Len(s) THEN ExtendZeros(s, dlc) ELSE s

\* LinMessage.__init__: the fields set, the heap after it, the exception raised
LinMessage_init(a, h) ==
    LET b == bytearray(a.data, h)
        dlc == IF a.dlc = NoneV THEN LadderDlc(Len(b.val)) ELSE a.dlc.v
        data == IF a.dlc = NoneV THEN PadComputed(b.val, dlc)
                ELSE PadExplicit(b.val, dlc)
    IN IF b.err # "none"
       THEN [err |-> b.err, heap |-> h,
             m |-> [id |-> a.id, data |-> 0, dlc |-> 0, flags |-> a.flags,
                    timestamp |-> a.timestamp, crc |-> a.crc, info |-> a.info]]
       ELSE [err |-> "none", heap |-> Alloc(h, data),
             m |-> [id |-> a.id, data |-> Len(h) + 1, dlc |-> dlc,
                    flags |-> a.flags, timestamp |-> a.timestamp,
                    crc |-> a.crc, info |-> a.info]]

\* getattr(m, slot), a bytearray read as its content
GetAttr(m, h, slot) == IF slot = "data" THEN h[m.data].val ELSE m[slot]

\* LinMessage.__eq__ of two LinMessages
LinMessage_eq(a, b, h) ==
    \A k \in 1..Len(eq_slots) :
       GetAttr(a, h, eq_slots[k]) = GetAttr(b, h, eq_slots[k])

\* LinMessage.__ne__
LinMessage_ne(a, b, h) == ~LinMessage_eq(a, b, h)

-----------------------------------------------------------------------------
(* Steps.                                                                  *)

\* the default of timestamp_delta, 1.0e-6 s, in microseconds
DefaultDelta == 1

DeltaInputs == {NoneV, Fin(DefaultDelta), Fin(10 * DefaultDelta)}

NoCall == [op |-> "none"]

Built(i) == i \in 1..Len(msgs) /\ msgs[i].err = "none"

\* the next Message(...) call of the caller
NewMessage ==
    /\ pc < Len(args)
    /\ LET r == Message_init(args[pc + 1], heap)
       IN /\ msgs' = Append(msgs, [err |-> r.err, text |-> r.text, m |-> r.m])
          /\ heap' = r.heap
    /\ pc' = pc + 1
    /\ last' = [op |-> "Message"]
    /\ UNCHANGED <<args, linArgs, lins>>

\* x.equals(y, timestamp_delta, check_channel, check_direction), once the
\* frames are built; the call changes no object, and a run makes one
Equals ==
    /\ pc = Len(args)
    /\ last.op # "equals"
    /\ \E i \in 1..Len(msgs), j \in 1..Len(msgs), d \in DeltaInputs,
          cc \in BOOLEAN, cd \in BOOLEAN :
          /\ Built(i) /\ Built(j)
          /\ last' = [op |-> "equals", self |-> i, other |-> j,
                      timestamp_delta |-> d, check_channel |-> cc,
                      check_direction |-> cd,
                      result |-> Message_equals(msgs, heap, i, j, d, cc, cd)]
    /\ UNCHANGED <<pc, args, heap, msgs, linArgs, lins>>

\* seq[i] = v, or seq.append(v), on the mutable sequence heap[r]
SetItem(h, r, i, v) == [h EXCEPT ![r].val[i] = v]
AppendItem(h, r, v) == [h EXCEPT ![r].val = Append(@, v)]

Mutate(r) ==
    \/ \E i \in 1..Len(heap[r].val), v \in 0..MaxByte :
         heap' = SetItem(heap, r, i, v)
    \/ /\ Len(heap[r].val) < MaxLen
       /\ \E v \in 0..MaxByte : heap' = AppendItem(heap, r, v)

\* the caller writes to the sequence it holds (heap[1])
CallerMutates ==
    /\ Mutate(1)
    /\ last' = [op |-> "caller_mutates"]
    /\ UNCHANGED <<pc, args, msgs, linArgs, lins>>

\* the caller writes to frame.data
FrameDataMutates ==
    /\ Built(1)
    /\ Mutate(msgs[1].m.data)
    /\ last' = [op |-> "frame_mutates"]
    /\ UNCHANGED <<pc, args, msgs, linArgs, lins>>

\* the next LinMessage(...) call of the caller
NewLinMessage ==
    /\ Len(lins) < Len(linArgs)
    /\ LET r == LinMessage_init(linArgs[Len(lins) + 1], heap)
       IN /\ lins' = Append(lins, [err |-> r.err, m |-> r.m])
          /\ heap' = r.heap
    /\ pc' = pc + 1
    /\ last' = [op |-> "LinMessage"]
    /\ UNCHANGED <<args, msgs, linArgs>>

LinBuilt(i) == i \in 1..Len(lins) /\ lins[i].err = "none"

\* a == b or a != b on two LinMessages, once they are built; the
\* comparison changes no object, and a run makes one
LinCompare ==
    /\ Len(lins) = Len(linArgs)
    /\ last.op \notin {"eq", "ne"}
    /\ \E i \in 1..Len(lins), j \in 1..Len(lins) :
         /\ LinBuilt(i) /\ LinBuilt(j)
         /\ \/ last' = [op |-> "eq", self |-> i, other |-> j,
                        result |-> LinMessage_eq(lins[i].m, lins[j].m, heap)]
            \/ last' = [op |-> "ne", self |-> i, other |-> j,
                        result |-> LinMessage_ne(lins[i].m, lins[j].m, heap)]
    /\ UNCHANGED <<pc, args, heap, msgs, linArgs, lins>>

-----------------------------------------------------------------------------
(* The arguments drawn for one validated construction.                     *)

LenInputs ==
    {0, 1} \cup (ClassicMaxDlc .. ClassicMaxDlc + Over)
           \cup (FdMaxDlc .. FdMaxDlc + Over)

CheckArgs ==
    [timestamp : {Fin(-1), Fin(0), Fin(1), PosInf, NegInf, NaN},
     id : {-1, 0, StdIdLimit - 1, StdIdLimit, ExtIdLimit - 1, ExtIdLimit},
     is_extended_id : BOOLEAN,
     is_remote_frame : BOOLEAN,
     is_error_frame : BOOLEAN,
     channel : {NoneV},
     dlc : {NoneV, IntV(-1)} \cup {IntV(n) : n \in LenInputs},
     data : {DNone, DStr, DList(<<ByteRange>>)}
            \cup {DBytes(Fill(n, 1)) : n \in LenInputs},
     is_fd : BOOLEAN,
     is_rx : {TRUE},
     bitrate_switch : BOOLEAN,
     error_state_indicator : BOOLEAN,
     check : BOOLEAN]

Init ==
    /\ pc = 0
    /\ \E a \in CheckArgs : args = <<a>>
    /\ heap = <<>>
    /\ msgs = <<>>
    /\ linArgs = <<>>
    /\ lins = <<>>
    /\ last = NoCall

Next == NewMessage

Spec == Init /\ [][Next]_vars

-----------------------------------------------------------------------------
(* Two frames to compare: the first a plain frame, the second differing    *)
(* from it in at most MaxDiff arguments.                                   *)

ArgNames ==
    {"timestamp", "id", "is_extended_id", "is_remote_frame", "is_error_frame",
     "channel", "dlc", "data", "is_fd", "is_rx", "bitrate_switch",
     "error_state_indicator", "check"}

DiffCount(a, b) == Cardinality({f \in ArgNames : a[f] # b[f]})

\* Message(id=1, data=b"\x01\x02")
PlainArgs ==
    [timestamp |-> Fin(0), id |-> 1, is_extended_id |-> TRUE,
     is_remote_frame |-> FALSE, is_error_frame |-> FALSE, channel |-> NoneV,
     dlc |-> NoneV, data |-> DBytes(<<1, 2>>), is_fd |-> FALSE,
     is_rx |-> TRUE, bitrate_switch |-> FALSE,
     error_state_indicator |-> FALSE, check |-> FALSE]

\* Message(timestamp=1e-6, id=1, channel=0, is_fd=True, bitrate_switch=True, ...)
FdArgs ==
    [PlainArgs EXCEPT !.timestamp = Fin(1), !.channel = IntV(0),
                      !.is_fd = TRUE, !.bitrate_switch = TRUE, !.is_rx = FALSE]

EqArgs ==
    [timestamp : {Fin(t) : t \in 0..MaxTs} \cup {NaN, PosInf},
     id : {1, 2},
     is_extended_id : BOOLEAN,
     is_remote_frame : BOOLEAN,
     is_error_frame : BOOLEAN,
     channel : {NoneV, IntV(0), StrV(0)},
     dlc : {NoneV, IntV(2)},
     data : {DBytes(<<1, 2>>), DBytes(<<1, 3>>), DNone},
     is_fd : BOOLEAN,
     is_rx : BOOLEAN,
     bitrate_switch : BOOLEAN,
     error_state_indicator : BOOLEAN,
     check : {FALSE}]

InitEq ==
    /\ pc = 0
    /\ \E a \in {PlainArgs, FdArgs} :
         \E b \in {x \in EqArgs : DiffCount(a, x) <= MaxDiff} : args = <<a, b>>
    /\ heap = <<>>
    /\ msgs = <<>>
    /\ linArgs = <<>>
    /\ lins = <<>>
    /\ last = NoCall

NextEq == NewMessage \/ Equals

SpecEq == InitEq /\ [][NextEq]_vars

-----------------------------------------------------------------------------
(* One frame built from a sequence the caller holds and keeps writing to.  *)

OwnArgs ==
    {[PlainArgs EXCEPT !.data = d, !.is_remote_frame = r] :
        d \in {DRef(1), DBytes(<<1>>), DNone}, r \in BOOLEAN}

InitOwn ==
    /\ pc = 0
    /\ \E a \in OwnArgs : args = <<a>>
    /\ \E kind \in {"list", "bytearray"}, s \in {<<>>, <<1>>} :
         heap = <<[kind |-> kind, val |-> s]>>
    /\ msgs = <<>>
    /\ linArgs = <<>>
    /\ lins = <<>>
    /\ last = NoCall

NextOwn == NewMessage \/ CallerMutates \/ FrameDataMutates

SpecOwn == InitOwn /\ [][NextOwn]_vars

-----------------------------------------------------------------------------
(* One LinMessage built from a payload of each length up to past the top   *)
(* of the ladder, with the dlc absent or explicit.                         *)

\* LinMessage(1, data)
LinPlain ==
    [id |-> 1, data |-> DBytes(<<1>>), dlc |-> NoneV, flags |-> 0,
     timestamp |-> NoneV, crc |-> NoneV, info |-> NoneV]

LinArgs ==
    {[LinPlain EXCEPT !.data = d, !.dlc = c] :
        d \in {DBytes(Fill(n, 1)) : n \in 0..(FdMaxDlc + Over)}
               \cup {DList(<<ByteRange>>)},
        c \in {NoneV} \cup {IntV(n) : n \in -1..(ClassicMaxDlc + Over)}}

InitLin ==
    /\ pc = 0
    /\ args = <<>>
    /\ heap = <<>>
    /\ msgs = <<>>
    /\ \E a \in LinArgs : linArgs = <<a>>
    /\ lins = <<>>
    /\ last = NoCall

NextLin == NewLinMessage

SpecLin == InitLin /\ [][NextLin]_vars

-----------------------------------------------------------------------------
(* Two LinMessages to compare.                                             *)

\* a LinMessageInfo object, compared by identity
InfoObj(n) == [k |-> "obj", v |-> n]

LinEqArgs ==
    [id : {1, 2},
     data : {DBytes(<<1>>), DBytes(<<2>>), DBytes(<<1, 0>>)},
     dlc : {NoneV, IntV(2)},
     flags : {0, 1},
     timestamp : {NoneV, Fin(0), Fin(1)},
     crc : {NoneV, IntV(0), IntV(5)},
     info : {NoneV, InfoObj(1), InfoObj(2)}]

InitLinEq ==
    /\ pc = 0
    /\ args = <<>>
    /\ heap = <<>>
    /\ msgs = <<>>
    /\ \E a \in {LinPlain,
                  [LinPlain EXCEPT !.timestamp = Fin(0), !.info = InfoObj(1),
                                   !.dlc = IntV(2)]} :
         \E b \in LinEqArgs : linArgs = <<a, b>>
    /\ lins = <<>>
    /\ last = NoCall

NextLinEq == NewLinMessage \/ LinCompare

SpecLinEq == InitLinEq /\ [][NextLinEq]_vars

-----------------------------------------------------------------------------
(* The well-formedness rules of a frame, in the order the specification    *)
(* lists them, stated on the fields of a constructed frame.                *)

DataOf(m) == heap[m.data].val

Violates(r, m) ==
    CASE r = 1 -> m.timestamp.k \in {"inf", "nan"} \/ m.timestamp.v < 0
      [] r = 2 -> m.is_remote_frame /\ m.is_error_frame
      [] r = 3 -> m.is_remote_frame /\ m.is_fd
      [] r = 4 -> \/ m.id < 0
                  \/ m.is_extended_id /\ m.id >= ExtIdLimit
                  \/ ~m.is_extended_id /\ m.id >= StdIdLimit
      [] r = 5 -> m.dlc < 0
      [] r = 6 -> \/ m.is_fd /\ m.dlc > FdMaxDlc
                  \/ ~m.is_fd /\ m.dlc > ClassicMaxDlc
      [] r = 7 -> m.is_remote_frame /\ DataOf(m) # <<>>
      [] r = 8 -> ~m.is_remote_frame /\ m.dlc # Len(DataOf(m))
      [] r = 9 -> ~m.is_fd /\ (m.bitrate_switch \/ m.error_state_indicator)

Rules == 1..9

Violated(m) == {r \in Rules : Violates(r, m)}

\* the rule an error text of the validator reports
RuleOf(text) ==
    CASE text \in {"the timestamp may not be negative",
                   "the timestamp may not be infinite",
                   "the timestamp may not be NaN"} -> 1
      [] text = "a message cannot be a remote and an error frame at the sane time" -> 2
      [] text = "CAN FD does not support remote frames" -> 3
      [] text \in {"arbitration IDs may not be negative",
                   "Extended arbitration IDs must be less than 2^29",
                   "Normal arbitration IDs must be less than 2^11"} -> 4
      [] text = "DLC may not be negative" -> 5
      [] text \in {"DLC should be <= 64 for CAN FD frames",
                   "DLC should be <= 8 for normal CAN frames"} -> 6
      [] text = "remote frames may not carry any data" -> 7
      [] text = "the DLC and the length of the data must match up for non remote frames" -> 8
      [] text \in {"bitrate switch is only allowed for CAN FD frames",
                   "error state indicator is only allowed for CAN FD frames"} -> 9
      [] OTHER -> 0

Calls == 1..Len(msgs)

\* the payload was converted, so every field of the frame was set
FieldsSet(i) == msgs[i].m.data # 0

-----------------------------------------------------------------------------
(* C1: a frame whose construction with check=True completes has            *)
(* dlc = len(data) when it is not a remote frame, and an empty payload     *)
(* when it is one.                                                         *)
C1_CheckedFrameLengths ==
    \A i \in Calls :
      (args[i].check /\ msgs[i].err = "none") =>
        LET m == msgs[i].m
        IN /\ ~m.is_remote_frame => m.dlc = Len(DataOf(m))
           /\ m.is_remote_frame => DataOf(m) = <<>>

\* a checked FD frame built with an explicit dlc of 64 and 64 bytes
C1_Witness ==
    \E i \in Calls :
      /\ args[i].check /\ msgs[i].err = "none"
      /\ ~msgs[i].m.is_remote_frame
      /\ args[i].dlc = IntV(FdMaxDlc)
      /\ Len(DataOf(msgs[i].m)) = FdMaxDlc

C3_FirstViolatedRule ==
    \A i \in Calls :
      (args[i].check /\ FieldsSet(i) /\ msgs[i].err = "ValueError") =>
        LET r == RuleOf(msgs[i].text)
        IN /\ r \in Violated(msgs[i].m)
           /\ \A q \in Rules : q < r => ~Violates(q, msgs[i].m)

\* a frame violating the id rule, the dlc limit and the FD flags rule at once
C3_Witness ==
    \E i \in Calls :
      /\ args[i].check /\ msgs[i].err = "ValueError"
      /\ {4, 6, 9} \subseteq Violated(msgs[i].m)
      /\ RuleOf(msgs[i].text) = 4

(* C4: construction with check=False never raises the validation error    *)
(* (ValueError), whatever the field values, and stores the scalar fields   *)
(* as supplied.                                                            *)
C4_UncheckedNeverRaises ==
    \A i \in Calls :
      ~args[i].check =>
        /\ msgs[i].err # "ValueError"
        /\ msgs[i].m.id = args[i].id
        /\ msgs[i].m.timestamp = args[i].timestamp
        /\ msgs[i].m.is_remote_frame = args[i].is_remote_frame
        /\ msgs[i].m.is_error_frame = args[i].is_error_frame

-----------------------------------------------------------------------------
(* Claims about the ownership of frame.data, on the frame msgs[1] built    *)
(* from the argument args[1].data.                                         *)

Passed == args[1].data

\* the caller passed a sequence it can still write to
PassedMutable == Built(1) /\ Passed.kind = "ref"

\* a mutation by the caller leaves frame.data as it was, and a mutation of
\* frame.data leaves the caller's sequence as it was
Independent ==
    /\ last'.op = "caller_mutates" =>
         heap'[msgs[1].m.data].val = heap[msgs[1].m.data].val
    /\ last'.op = "frame_mutates" =>
         heap'[Passed.ref].val = heap[Passed.ref].val

(* C5 as stated: for every kind of payload argument, a bytearray included, *)
(* the frame owns a copy, so the caller's writes and the frame's do not    *)
(* reach each other.                                                       *)
C5_AlwaysCopied == [][PassedMutable => Independent]_vars

(* C5 as amended: the frame owns a copy unless the argument is a bytearray *)
(* passed to a frame that is not a remote frame; that bytearray is stored  *)
(* by reference and stays frame.data itself.                               *)
C5_CopiedUnlessByteArray ==
    [][PassedMutable =>
         IF IsByteArray(Passed, heap) /\ ~args[1].is_remote_frame
         THEN msgs[1].m.data = Passed.ref
              /\ heap'[msgs[1].m.data].val = heap'[Passed.ref].val
         ELSE msgs[1].m.data # Passed.ref /\ Independent]_vars

\* a frame built from a list, whose content the caller then changed
C5_Witness ==
    /\ PassedMutable /\ heap[Passed.ref].kind = "list"
    /\ last.op = "caller_mutates"
    /\ ~args[1].is_remote_frame
    /\ DataOf(msgs[1].m) # heap[Passed.ref].val

-----------------------------------------------------------------------------
(* Claims about Message.equals, on the call recorded in `last`.            *)

IsEquals == last.op = "equals"
Self == msgs[last.self].m
Other == msgs[last.other].m

\* the two frames agree on every field other than the timestamp
AgreeButTimestamp(a, b) ==
    /\ a.id = b.id /\ a.is_extended_id = b.is_extended_id /\ a.dlc = b.dlc
    /\ DataOf(a) = DataOf(b)
    /\ a.is_remote_frame = b.is_remote_frame
    /\ a.is_error_frame = b.is_error_frame
    /\ a.is_fd = b.is_fd /\ a.bitrate_switch = b.bitrate_switch
    /\ a.error_state_indicator = b.error_state_indicator
    /\ a.channel = b.channel /\ a.is_rx = b.is_rx

BothFinite(a, b) == a.timestamp.k = "fin" /\ b.timestamp.k = "fin"

(* C6: equals is reflexive whatever the settings, symmetric for            *)
(* timestamp_delta=None, and two frames agreeing on every field but the    *)
(* (finite) timestamps are equal exactly when they differ by at most       *)
(* timestamp_delta.                                                        *)
C6_ReflexiveSymmetricDelta ==
    IsEquals =>
      /\ last.self = last.other => last.result
      /\ last.timestamp_delta = NoneV =>
           last.result = Message_equals(msgs, heap, last.other, last.self,
                                        NoneV, last.check_channel,
                                        last.check_direction)
      /\ ( /\ last.self # last.other
           /\ AgreeButTimestamp(Self, Other) /\ BothFinite(Self, Other)
           /\ last.timestamp_delta # NoneV ) =>
           (last.result <=>
              Abs(Self.timestamp.v - Other.timestamp.v) <= last.timestamp_delta.v)

\* timestamps 2 microseconds apart: unequal under the default delta
C6_Witness ==
    /\ IsEquals /\ last.self # last.other
    /\ AgreeButTimestamp(Self, Other) /\ BothFinite(Self, Other)
    /\ Abs(Self.timestamp.v - Other.timestamp.v) = 2
    /\ last.timestamp_delta = Fin(DefaultDelta)
    /\ ~last.result

(* C7: for two distinct frames equals returns true exactly when the nine   *)
(* exact fields match, channel matches or check_channel is false, is_rx    *)
(* matches or check_direction is false, and the timestamps are within      *)
(* timestamp_delta or timestamp_delta is None.                             *)
C7_EqualsIffFieldsMatch ==
    (IsEquals /\ last.self # last.other) =>
      (last.result <=>
         /\ Self.id = Other.id
         /\ Self.is_extended_id = Other.is_extended_id
         /\ Self.dlc = Other.dlc
         /\ DataOf(Self) = DataOf(Other)
         /\ Self.is_remote_frame = Other.is_remote_frame
         /\ Self.is_error_frame = Other.is_error_frame
         /\ Self.is_fd = Other.is_fd
         /\ Self.bitrate_switch = Other.bitrate_switch
         /\ Self.error_state_indicator = Other.error_state_indicator
         /\ (Self.channel = Other.channel \/ ~last.check_channel)
         /\ (Self.is_rx = Other.is_rx \/ ~last.check_direction)
         /\ \/ last.timestamp_delta = NoneV
            \/ /\ BothFinite(Self, Other)
               /\ Abs(Self.timestamp.v - Other.timestamp.v)
                    <= last.timestamp_delta.v)

\* the channels alone differ and check_channel is false: the frames are equal
C7_Witness ==
    /\ IsEquals /\ last.self # last.other
    /\ Self.channel # Other.channel /\ Self.is_rx = Other.is_rx
    /\ Self.timestamp = Other.timestamp
    /\ ~last.check_channel
    /\ last.result

-----------------------------------------------------------------------------
(* Claims about LinMessage construction, on the LinMessage lins[1] built   *)
(* from linArgs[1].                                                        *)

Ladder == (0..8) \cup {12, 16, 20, 24, 32, 48, 64}

LinIn == Items(linArgs[1].data, heap)
LinOut == heap[lins[1].m.data].val

\* s is t followed by zero bytes only
ZeroPadded(s, t) ==
    /\ Len(s) >= Len(t)
    /\ \A i \in 1..Len(s) : s[i] = IF i <= Len(t) THEN t[i] ELSE 0

\* the stored dlc is len(input) rounded up to the ladder, and the stored
\* data is the input zero-padded to exactly dlc bytes
RoundedAndPadded ==
    LET dlc == lins[1].m.dlc
    IN /\ dlc \in Ladder /\ dlc >= Len(LinIn)
       /\ \A q \in Ladder : q >= Len(LinIn) => q >= dlc
       /\ Len(LinOut) = dlc
       /\ ZeroPadded(LinOut, LinIn)

(* C8 as stated: for every payload length, a LinMessage built without dlc  *)
(* gets len(data) rounded up to the ladder as its dlc and its data padded  *)
(* with zeros to exactly dlc bytes.                                        *)
C8_LadderEveryLength ==
    (LinBuilt(1) /\ linArgs[1].dlc = NoneV) => RoundedAndPadded

(* C8 as amended: the same, for every payload length of at most 64, the    *)
(* top of the ladder.                                                      *)
C8_LadderUpTo64 ==
    (LinBuilt(1) /\ linArgs[1].dlc = NoneV /\ Len(LinIn) <= 64)
      => RoundedAndPadded

\* nine bytes given: dlc 12 and three zero bytes appended
C8_Witness ==
    /\ LinBuilt(1) /\ linArgs[1].dlc = NoneV
    /\ Len(LinIn) = 9 /\ lins[1].m.dlc = 12 /\ Len(LinOut) = 12

(* C9 as stated: with an explicit dlc <= 8, for every input payload, the   *)
(* stored data has exactly dlc bytes and the stored dlc is the one given.  *)
C9_ExplicitDlcExactLength ==
    (LinBuilt(1) /\ linArgs[1].dlc # NoneV /\ linArgs[1].dlc.v <= 8) =>
      /\ lins[1].m.dlc = linArgs[1].dlc.v
      /\ Len(LinOut) = lins[1].m.dlc
      /\ ZeroPadded(LinOut, LinIn)

(* C9 as amended: with an explicit dlc <= 8 the stored dlc is the one      *)
(* given and the stored data is the input, followed by zero bytes up to    *)
(* dlc bytes when the input is shorter than dlc; a longer input is kept    *)
(* whole, so len(data) = max(len(input), dlc).                             *)
C9_ExplicitDlcPadsOnly ==
    (LinBuilt(1) /\ linArgs[1].dlc # NoneV /\ linArgs[1].dlc.v <= 8) =>
      /\ lins[1].m.dlc = linArgs[1].dlc.v
      /\ Len(LinOut) = IF Len(LinIn) > lins[1].m.dlc THEN Len(LinIn)
                       ELSE lins[1].m.dlc
      /\ ZeroPadded(LinOut, LinIn)

\* one byte given with dlc=8: seven zero bytes appended
C9_Witness ==
    /\ LinBuilt(1) /\ linArgs[1].dlc = IntV(8)
    /\ Len(LinIn) = 1 /\ Len(LinOut) = 8

-----------------------------------------------------------------------------
(* Claims about LinMessage comparison, on the call recorded in `last`.     *)

IsLinCompare == last.op \in {"eq", "ne"}
LinSelf == lins[last.self].m
LinOther == lins[last.other].m

\* id, data, dlc, flags, crc and info are pairwise equal
SixFieldsEqual(a, b) ==
    /\ a.id = b.id
    /\ heap[a.data].val = heap[b.data].val
    /\ a.dlc = b.dlc
    /\ a.flags = b.flags
    /\ a.crc = b.crc
    /\ a.info = b.info

(* C10: a == b exactly when id, data, dlc, flags, crc and info are         *)
(* pairwise equal, whatever the timestamps; a != b is its negation.        *)
C10_EqIgnoresTimestamp ==
    IsLinCompare =>
      /\ last.op = "eq" => (last.result <=> SixFieldsEqual(LinSelf, LinOther))
      /\ last.op = "ne" => (last.result <=> ~SixFieldsEqual(LinSelf, LinOther))

\* two LinMessages equal although one has a timestamp and the other none
C10_Witness ==
    /\ last.op = "eq" /\ last.self # last.other
    /\ LinSelf.timestamp # LinOther.timestamp
    /\ NoneV \in {LinSelf.timestamp, LinOther.timestamp}
    /\ last.result

====
